---- MODULE Spec2Model ----
(***************************************************************************)
(* Model of the food-analysis engine of cloe:                              *)
(*   - the Lit Action (packages/lit-ai/src/actions/food-analysis.js and    *)
(*     the inline copy returned by LitAIClient.getFoodAnalysisCode),       *)
(*   - DecentralizedAIService.analyzeFood / analyzeFoodFallback,           *)
(*   - AddMeal.analyzeImage, which falls back to the centralized call,     *)
(*   - the useTableland hook and AddMeal.saveMeal (TablelandSpec).         *)
(*                                                                         *)
(* executeJs is taken to resolve to the object the action returns, as      *)
(* analyzeFood reads it (result.success, result.data, result.signature).   *)
(*                                                                         *)
(* Numbers are kept in tenths (1500 is 150.0), so that the one-decimal     *)
(* rounding of carbs, fats and proteins is integer arithmetic.  Names are  *)
(* sequences of one-character strings, so that toLowerCase() and trim()    *)
(* are computed and not assumed.                                           *)
(***************************************************************************)
EXTENDS Integers, Sequences, FiniteSets, TLC

VARIABLES
    actionCode,     \* which Lit Action source the nodes run: "standalone" | "inline"
    aiService,      \* AddMeal state aiService: "null" | "ready"
    initDone,       \* initAI() of the mount effect has finished
    wallet,         \* DecentralizedAIService.wallet is set
    mounted,        \* the AddMeal view is shown (it has not been left)
    pc,             \* position of the analyzeImage request
    entry,          \* how analyzeImage was entered: "none" | "capture" | "upload"
    calls,          \* per provider: the state of its callOpenRouter promise
    settleOrder,    \* the providers in the order their promises settled
    validResults,   \* the action's validResults after the join
    actionResult,   \* what foodAnalysisAction returned
    fallbackCall,   \* the state of the fetch of analyzeFoodFallback
    providerCalls,  \* number of provider fetches issued by the fan-out
    fallbackCalls,  \* number of fetches issued by analyzeFoodFallback
    result,         \* the DecentralizedAnalysisResult analyzeImage obtained
    isCapturing, isAnalyzing, foodItems, analysisMetadata, error,
    aggResults,     \* aggregateResults: its argument
    aggPos,         \* aggregateResults: <<index of result, index of item>> of the forEach loops
    itemMap,        \* aggregateResults: the Map, in insertion order
    aggLast,        \* the last itemMap.set: [kind, existing, incoming, merged]
    aggOut,         \* aggregateResults: the returned value
    requests,       \* per overlapping analyzeFood invocation: its locals and position
    svcLog,         \* ServiceSpec: the calls made on the service, in order
    svcThrown,      \* ServiceSpec: the message of the Error the last analyzeFood threw, or ""
    address,        \* useAccount: the connected address with its wallet client, or "none"
    tablelandService, userTable, profileTable, userProfile, isInitializing,
    initRuns,       \* the initTableland invocations: [address, pc]
    isSaving,
    savePc,         \* position of AddMeal.saveMeal
    saveTarget,     \* the store the running or last saveMeal chose
    tablelandMeals, \* the meals inserted into the Tableland table
    meals,          \* useStore: the local meals
    navigated,      \* navigate('/') has been called by saveMeal
    saveError,      \* the error state as saveMeal sets it
    saveCount       \* the saveMeal invocations so far

vars == << actionCode, aiService, initDone, wallet, mounted, pc, entry, calls, settleOrder, validResults,
           actionResult, fallbackCall, providerCalls, fallbackCalls, result,
           isCapturing, isAnalyzing, foodItems, analysisMetadata, error,
           aggResults, aggPos, itemMap, aggLast, aggOut, requests, svcLog, svcThrown,
           address, tablelandService, userTable, profileTable, userProfile, isInitializing,
           initRuns, isSaving, savePc, saveTarget, tablelandMeals, meals, navigated,
           saveError, saveCount >>

engineVars == << actionCode, aiService, initDone, wallet, mounted, pc, entry, calls, settleOrder,
                 validResults,
                 actionResult, fallbackCall, providerCalls, fallbackCalls, result,
                 isCapturing, isAnalyzing, foodItems, analysisMetadata, error >>

aggVars == << aggResults, aggPos, itemMap, aggLast, aggOut >>

overlapVars == << requests >>

\* The state of the AddMeal view, which every analyzeImage run of the
\* component writes.
viewVars == << isCapturing, isAnalyzing, foodItems, analysisMetadata, error >>

\* The single-request engine without the view.
requestVars == << actionCode, aiService, initDone, wallet, mounted, pc, entry, calls, settleOrder,
                  validResults, actionResult, fallbackCall, providerCalls, fallbackCalls,
                  result >>

serviceVars == << svcLog, svcThrown >>

\* The state of the useTableland hook and of the wallet it follows.
hookVars == << address, tablelandService, userTable, profileTable, userProfile,
               isInitializing, initRuns >>

\* saveMeal and the two stores.
saveVars == << isSaving, savePc, saveTarget, tablelandMeals, meals, navigated, saveError,
               saveCount >>

storageVars == << hookVars, saveVars >>

-----------------------------------------------------------------------------
(* Names: item.name.toLowerCase().trim()                                   *)

NameRice == << "R", "i", "c", "e" >>
NameRiceLower == << "r", "i", "c", "e", " " >>
NameEgg == << " ", "E", "g", "g" >>

\* String.prototype.toLowerCase on the letters the model's names use.
ToLowerChar(c) ==
    CASE c = "R" -> "r"
      [] c = "E" -> "e"
      [] OTHER -> c

toLowerCase(s) == [k \in 1..Len(s) |-> ToLowerChar(s[k])]

RECURSIVE TrimLeft(_)
TrimLeft(s) ==
    IF s # << >> /\ Head(s) = " " THEN TrimLeft(Tail(s)) ELSE s

RECURSIVE TrimRight(_)
TrimRight(s) ==
    IF s # << >> /\ s[Len(s)] = " " THEN TrimRight(SubSeq(s, 1, Len(s) - 1)) ELSE s

trim(s) == TrimRight(TrimLeft(s))

\* A key that is the name as the provider wrote it.
NormalizedKeyRaw(item) == item.name

\* const key = item.name.toLowerCase().trim();
NormalizedKey(item) == trim(toLowerCase(item.name))

-----------------------------------------------------------------------------
(* Rounding.  All arguments and results are tenths.                        *)

\* Math.round((a + b) / 2): the nearest integer, a tie going up.  Exact in
\* IEEE-754 doubles for the numbers of one decimal the model uses.
MathRoundHalf(a, b) == 10 * ((a + b + 10) \div 20)

\* The pairs a <= b of tenths up to 4.0 for which ((a + b) / 2) * 10, computed
\* in IEEE-754 doubles, falls just below the tie k + 0.5 (0.6 and 0.7 give
\* 6.499999999999999), so that Math.round goes down where exact arithmetic
\* would go up.
FloatTieBelow ==
    { <<3, 24>>, <<3, 28>>, <<4, 23>>, <<6, 7>>, <<7, 14>>, <<7, 24>>, <<8, 23>>,
      <<12, 19>>, <<14, 17>>, <<14, 33>>, <<19, 28>>, <<19, 38>>, <<23, 24>>,
      <<23, 34>>, <<24, 33>>, <<28, 29>> }

\* Math.round(((a + b) / 2) * 10) / 10
MathRoundTenth(a, b) ==
    IF (IF a <= b THEN <<a, b>> ELSE <<b, a>>) \in FloatTieBelow
    THEN (a + b) \div 2
    ELSE (a + b + 1) \div 2

-----------------------------------------------------------------------------
(* Food items and provider payloads (the parsed JSON of one provider)      *)

Item(n, q, u, cal, c, f, p) ==
    [name |-> n, quantity |-> q, unit |-> u, calories |-> cal,
     carbs |-> c, fats |-> f, proteins |-> p]

Nutrition(cal, c, f, p) == [calories |-> cal, carbs |-> c, fats |-> f, proteins |-> p]

RiceA == Item(NameRice, 1500, "g", 2000, 6, 7, 24)
RiceB == Item(NameRiceLower, 1700, "grams", 2200, 7, 10, 30)
RiceC == Item(NameRice, 1550, "g", 2050, 10, 20, 31)
EggA == Item(NameEgg, 500, "g", 780, 6, 30, 40)
\* an item with a number no food has: nothing checks what JSON.parse returns
EggNeg == Item(NameEgg, 500, "g", -780, 6, 30, 40)

\* finalItems.reduce(...) of aggregateResults: the sum of each measure.
RECURSIVE SumNutrition(_)
SumNutrition(items) ==
    IF items = << >> THEN Nutrition(0, 0, 0, 0)
    ELSE LET acc == SumNutrition(SubSeq(items, 1, Len(items) - 1))
             item == items[Len(items)]
         IN  Nutrition(acc.calories + item.calories, acc.carbs + item.carbs,
                       acc.fats + item.fats, acc.proteins + item.proteins)

\* A parsed provider answer.  hasItems is whether the object has an items
\* array; providersUsed 0 and confidence "absent" are fields the object does
\* not have (both are falsy for the || of analyzeFood).
Payload(hasIt, its, tot, conf) ==
    [hasItems |-> hasIt, items |-> its, totalNutrition |-> tot,
     providersUsed |-> 0, confidence |-> conf]

PayA == Payload(TRUE, << RiceA >>, SumNutrition(<< RiceA >>), "absent")
PayB == Payload(TRUE, << RiceB, EggA >>, SumNutrition(<< RiceB, EggA >>), "absent")
\* a provider whose own totals are not the sum of its items
PayC == Payload(TRUE, << EggA, RiceC >>, Nutrition(3000, 20, 50, 70), "absent")
\* a provider that reports no food
PayEmpty == Payload(TRUE, << >>, Nutrition(0, 0, 0, 0), "absent")
\* valid JSON that is not of the requested shape, e.g. {"error": "..."}
PayNoItems == Payload(FALSE, << >>, Nutrition(0, 0, 0, 0), "absent")
\* a provider that adds a confidence field of its own
PayConf == Payload(TRUE, << RiceC >>, SumNutrition(<< RiceC >>), "low")

\* a provider that answers a negative calories value
PayNeg == Payload(TRUE, << EggNeg >>, SumNutrition(<< EggNeg >>), "absent")

Payloads == { PayA, PayB, PayC, PayEmpty, PayNoItems, PayConf, PayNeg }

\* an item that carries a field the prompt did not ask for
EggNoted == [name |-> NameEgg, quantity |-> 500, unit |-> "g", calories |-> 780,
             carbs |-> 6, fats |-> 30, proteins |-> 40, notes |-> "boiled"]

PayNoted == Payload(TRUE, << EggNoted >>, SumNutrition(<< EggNoted >>), "absent")

\* The results aggregateResults is given in AggSpec.
AggPayloads == Payloads \cup { PayNoted }

-----------------------------------------------------------------------------
(* aggregateResults                                                        *)

\* A merge that cuts the average instead of rounding it (Math.floor for Math.round).
MergeItemTrunc(existing, item) ==
    [name |-> item.name,
     quantity |-> 10 * ((existing.quantity + item.quantity) \div 20),
     unit |-> existing.unit,
     calories |-> 10 * ((existing.calories + item.calories) \div 20),
     carbs |-> (existing.carbs + item.carbs) \div 2,
     fats |-> (existing.fats + item.fats) \div 2,
     proteins |-> (existing.proteins + item.proteins) \div 2]

\* A merge that keeps the larger of the two values of each field, which
\* gives the same entry for every order of the items.
MergeItemMax(existing, item) ==
    LET Max(a, b) == IF a >= b THEN a ELSE b
    IN  [name |-> item.name,
         quantity |-> Max(existing.quantity, item.quantity),
         unit |-> existing.unit,
         calories |-> Max(existing.calories, item.calories),
         carbs |-> Max(existing.carbs, item.carbs),
         fats |-> Max(existing.fats, item.fats),
         proteins |-> Max(existing.proteins, item.proteins)]

\* A merge that takes the unit, like the name, from the incoming item.
MergeItemLastUnit(existing, item) ==
    [name |-> item.name,
     quantity |-> MathRoundHalf(existing.quantity, item.quantity),
     unit |-> item.unit,
     calories |-> MathRoundHalf(existing.calories, item.calories),
     carbs |-> MathRoundTenth(existing.carbs, item.carbs),
     fats |-> MathRoundTenth(existing.fats, item.fats),
     proteins |-> MathRoundTenth(existing.proteins, item.proteins)]

\* A merge that keeps the name of the Map entry, like its unit.
MergeItemFirstName(existing, item) ==
    [name |-> existing.name,
     quantity |-> MathRoundHalf(existing.quantity, item.quantity),
     unit |-> existing.unit,
     calories |-> MathRoundHalf(existing.calories, item.calories),
     carbs |-> MathRoundTenth(existing.carbs, item.carbs),
     fats |-> MathRoundTenth(existing.fats, item.fats),
     proteins |-> MathRoundTenth(existing.proteins, item.proteins)]

\* The object built for a key the Map already has.
MergeItem(existing, item) ==
    [name |-> item.name,
     quantity |-> MathRoundHalf(existing.quantity, item.quantity),
     unit |-> existing.unit,
     calories |-> MathRoundHalf(existing.calories, item.calories),
     carbs |-> MathRoundTenth(existing.carbs, item.carbs),
     fats |-> MathRoundTenth(existing.fats, item.fats),
     proteins |-> MathRoundTenth(existing.proteins, item.proteins)]

\* itemMap is a sequence of [key, value] in insertion order (a JS Map keeps
\* the position of a key that is set again).
MapHas(map, key) == \E k \in 1..Len(map) : map[k].key = key

MapIndex(map, key) == CHOOSE k \in 1..Len(map) : map[k].key = key

MapGet(map, key) == map[MapIndex(map, key)].value

MapSet(map, key, value) ==
    IF MapHas(map, key)
    THEN [map EXCEPT ![MapIndex(map, key)] = [key |-> key, value |-> value]]
    ELSE Append(map, [key |-> key, value |-> value])

\* Array.from(itemMap.values())
MapValues(map) == [k \in 1..Len(map) |-> map[k].value]

\* One iteration of result.items.forEach.
MergeInto(map, item) ==
    LET key == NormalizedKey(item)
    IN  IF MapHas(map, key)
        THEN MapSet(map, key, MergeItem(MapGet(map, key), item))
        ELSE MapSet(map, key, item)

RECURSIVE FoldItems(_, _)
FoldItems(map, items) ==
    IF items = << >> THEN map
    ELSE FoldItems(MergeInto(map, Head(items)), Tail(items))

\* results.forEach: a result without an items array is skipped.
RECURSIVE FoldResults(_, _)
FoldResults(map, results) ==
    IF results = << >> THEN map
    ELSE FoldResults(IF Head(results).hasItems THEN FoldItems(map, Head(results).items)
                     ELSE map,
                     Tail(results))

\* A return value whose totals are the items' sums averaged over the results.
AggregateOfMeanTotals(map, n) ==
    LET sum == SumNutrition(MapValues(map))
    IN  [hasItems |-> TRUE,
         items |-> MapValues(map),
         totalNutrition |-> Nutrition(sum.calories \div n, sum.carbs \div n,
                                      sum.fats \div n, sum.proteins \div n),
         providersUsed |-> n,
         confidence |-> IF n >= 2 THEN "high" ELSE "medium"]

\* What aggregateResults returns once the Map is built.
AggregateOf(map, n) ==
    [hasItems |-> TRUE,
     items |-> MapValues(map),
     totalNutrition |-> SumNutrition(MapValues(map)),
     providersUsed |-> n,
     confidence |-> IF n >= 2 THEN "high" ELSE "medium"]

\* aggregateResults without its early return for a single result.
aggregateResultsNoPassThrough(results) ==
    AggregateOf(FoldResults(<< >>, results), Len(results))

aggregateResults(results) ==
    IF Len(results) = 1 THEN results[1]
    ELSE AggregateOf(FoldResults(<< >>, results), Len(results))

-----------------------------------------------------------------------------
(* aggregateResults, one forEach iteration at a time (specification        *)
(* AggSpec): the argument is any list of up to MaxSources payloads.        *)

MaxSources == 3

RECURSIVE SeqsUpTo(_, _)
SeqsUpTo(S, n) ==
    IF n = 0 THEN { << >> }
    ELSE LET shorter == SeqsUpTo(S, n - 1)
         IN  shorter \cup { Append(q, x) : q \in { r \in shorter : Len(r) = n - 1 }, x \in S }

NoSet == [kind |-> "none", existing |-> RiceA, incoming |-> RiceA, merged |-> RiceA]
NoOut == [done |-> FALSE, value |-> PayNoItems]

AggIdle ==
    /\ aggResults = << >>
    /\ aggPos = << 1, 1 >>
    /\ itemMap = << >>
    /\ aggLast = NoSet
    /\ aggOut = NoOut

\* if (results.length === 1) return results[0];
AggPassThrough ==
    /\ Len(aggResults) = 1
    /\ ~aggOut.done
    /\ aggOut' = [done |-> TRUE, value |-> aggregateResults(aggResults)]
    /\ UNCHANGED << aggResults, aggPos, itemMap, aggLast >>
    /\ UNCHANGED engineVars
    /\ UNCHANGED overlapVars
    /\ UNCHANGED serviceVars
    /\ UNCHANGED storageVars

\* results.forEach: the next result, when this one has no items array or
\* its items are exhausted.
AggNextResult ==
    /\ Len(aggResults) > 1
    /\ aggPos[1] <= Len(aggResults)
    /\ LET r == aggResults[aggPos[1]]
       IN  ~r.hasItems \/ aggPos[2] > Len(r.items)
    /\ aggPos' = << aggPos[1] + 1, 1 >>
    /\ UNCHANGED << aggResults, itemMap, aggLast, aggOut >>
    /\ UNCHANGED engineVars
    /\ UNCHANGED overlapVars
    /\ UNCHANGED serviceVars
    /\ UNCHANGED storageVars

\* result.items.forEach: one item into the Map.
AggItem ==
    /\ Len(aggResults) > 1
    /\ aggPos[1] <= Len(aggResults)
    /\ LET r == aggResults[aggPos[1]]
       IN  /\ r.hasItems
           /\ aggPos[2] <= Len(r.items)
           /\ LET item == r.items[aggPos[2]]
                  key == NormalizedKey(item)
                  next == MergeInto(itemMap, item)
              IN  /\ itemMap' = next
                  /\ aggLast' = IF MapHas(itemMap, key)
                                THEN [kind |-> "merge", existing |-> MapGet(itemMap, key),
                                      incoming |-> item, merged |-> MapGet(next, key)]
                                ELSE [kind |-> "insert", existing |-> item,
                                      incoming |-> item, merged |-> MapGet(next, key)]
    /\ aggPos' = << aggPos[1], aggPos[2] + 1 >>
    /\ UNCHANGED << aggResults, aggOut >>
    /\ UNCHANGED engineVars
    /\ UNCHANGED overlapVars
    /\ UNCHANGED serviceVars
    /\ UNCHANGED storageVars

\* finalItems, totalNutrition and the returned object.
AggReturn ==
    /\ Len(aggResults) > 1
    /\ aggPos[1] > Len(aggResults)
    /\ ~aggOut.done
    /\ aggOut' = [done |-> TRUE, value |-> AggregateOf(itemMap, Len(aggResults))]
    /\ UNCHANGED << aggResults, aggPos, itemMap, aggLast >>
    /\ UNCHANGED engineVars
    /\ UNCHANGED overlapVars
    /\ UNCHANGED serviceVars
    /\ UNCHANGED storageVars

-----------------------------------------------------------------------------
(* The providers and their answers                                         *)

\* aiProviders of food-analysis.js has three entries, the inline copy two.
NumProvidersStandalone == 3
NumProvidersInline == 2
MaxProviders == NumProvidersStandalone

Providers(code) ==
    IF code = "standalone" THEN 1..NumProvidersStandalone ELSE 1..NumProvidersInline

\* What the network gives one fetch:
\*   "transport"  fetch rejects
\*   "http"       response.ok is false
\*   "badjson"    response.json(), data.choices[0] or JSON.parse throws
\*   "jsonnull"   the content is the JSON literal null
\*   "ok"         the content parses to the payload
FailKinds == { "transport", "http", "badjson", "jsonnull" }

Responses ==
    { [kind |-> k, payload |-> PayNoItems] : k \in FailKinds }
        \cup { [kind |-> "ok", payload |-> p] : p \in Payloads }

IdleCall == [state |-> "idle", kind |-> "none", isNull |-> TRUE, value |-> PayNoItems]
PendingCall == [state |-> "pending", kind |-> "none", isNull |-> TRUE, value |-> PayNoItems]

\* A callOpenRouter whose catch block rethrows instead of returning null.
callOpenRouterRethrows(resp) ==
    [state |-> IF resp.kind \in { "transport", "http", "badjson" } THEN "rejected"
               ELSE "fulfilled",
     kind |-> resp.kind, isNull |-> resp.kind # "ok", value |-> resp.payload]

\* callOpenRouter: every throw inside its try is caught and becomes null, so
\* the promise is always fulfilled.
callOpenRouter(resp) ==
    [state |-> "fulfilled", kind |-> resp.kind, isNull |-> resp.kind # "ok",
     value |-> resp.payload]

Settled(c) == c.state \in { "fulfilled", "rejected" }

\* Promise.all would resume the caller at the first rejection.
JoinReadyFirstSettled(code, cs) == \E p \in Providers(code) : Settled(cs[p])

\* Promise.allSettled resumes the caller once every promise has settled.
JoinReady(code, cs) == \A p \in Providers(code) : Settled(cs[p])

\* A filter that keeps every fulfilled result, the null ones too.
RECURSIVE FilterValidKeepsNull(_, _, _)
FilterValidKeepsNull(cs, p, n) ==
    IF p > n THEN << >>
    ELSE (IF cs[p].state = "fulfilled" THEN << cs[p].value >> ELSE << >>)
             \o FilterValidKeepsNull(cs, p + 1, n)

\* A list of the valid results in the order the promises settled, as a
\* coordinator that pushes each result from its own callback would build it.
FilterValidSettleOrder(cs, p, n) ==
    LET settled == SelectSeq(settleOrder,
                             LAMBDA q : /\ p <= q /\ q <= n
                                        /\ cs[q].state = "fulfilled" /\ ~cs[q].isNull)
    IN  [k \in 1..Len(settled) |-> cs[settled[k]].value]

\* results.filter(fulfilled and value !== null).map(value), in provider order.
RECURSIVE FilterValid(_, _, _)
FilterValid(cs, p, n) ==
    IF p > n THEN << >>
    ELSE (IF cs[p].state = "fulfilled" /\ ~cs[p].isNull THEN << cs[p].value >> ELSE << >>)
             \o FilterValid(cs, p + 1, n)

-----------------------------------------------------------------------------
(* Results                                                                 *)

ErrAllFailed == "All AI providers failed"
ErrSign == "signEcdsa failed"
ErrInit == "Failed to initialize AI service. Using fallback mode."
ErrAnalyze == "Failed to analyze image. Please try again."

NoActionResult ==
    [returned |-> FALSE, success |-> FALSE, data |-> PayNoItems, error |-> "", signed |-> FALSE]

NoResult ==
    [present |-> FALSE, items |-> << >>, totalNutrition |-> Nutrition(0, 0, 0, 0),
     providersUsed |-> 0, confidence |-> "absent", network |-> "none", signed |-> FALSE]

NoMetadata == [providersUsed |-> 0, confidence |-> "absent", network |-> "none"]

\* analyzeFood's transformation of a successful action result.  The id it
\* adds to every item is left out.
AnalysisResultOf(ar) ==
    [present |-> TRUE,
     items |-> ar.data.items,
     totalNutrition |-> ar.data.totalNutrition,
     providersUsed |-> IF ar.data.providersUsed = 0 THEN 1 ELSE ar.data.providersUsed,
     confidence |-> IF ar.data.confidence = "absent" THEN "medium" ELSE ar.data.confidence,
     network |-> "lit-protocol",
     signed |-> ar.signed]

\* A fallback whose return value is tagged like a result of the Lit path.
FallbackResultAsLit(payload) ==
    [present |-> TRUE, items |-> payload.items, totalNutrition |-> payload.totalNutrition,
     providersUsed |-> 1, confidence |-> "low", network |-> "lit-protocol",
     signed |-> FALSE]

\* What analyzeFoodFallback returns.
FallbackResultOf(payload) ==
    [present |-> TRUE, items |-> payload.items, totalNutrition |-> payload.totalNutrition,
     providersUsed |-> 1, confidence |-> "low", network |-> "centralized-fallback",
     signed |-> FALSE]

\* analyzeFoodFallback returns normally: the fetch is ok, the content parses,
\* and result.items.map does not throw.
FallbackParses(resp) == resp.kind = "ok" /\ resp.payload.hasItems

-----------------------------------------------------------------------------
(* The engine: AddMeal.analyzeImage -> analyzeFood -> Lit Action -> fallback *)

EngineIdle ==
    /\ aiService = "null"
    /\ initDone = FALSE
    /\ wallet = FALSE
    /\ mounted = TRUE
    /\ pc = "idle"
    /\ entry = "none"
    /\ calls = [p \in 1..MaxProviders |-> IdleCall]
    /\ settleOrder = << >>
    /\ validResults = << >>
    /\ actionResult = NoActionResult
    /\ fallbackCall = IdleCall
    /\ providerCalls = 0
    /\ fallbackCalls = 0
    /\ result = NoResult
    /\ isCapturing = TRUE
    /\ isAnalyzing = FALSE
    /\ foodItems = << >>
    /\ analysisMetadata = NoMetadata
    /\ error = "null"

\* Two invocations of analyzeFood on one service instance (OverlapSpec).
Requests == { "first", "second" }

OtherRequest(r) == IF r = "first" THEN "second" ELSE "first"

\* The locals of one invocation before it starts: those of analyzeImage
\* (result), of analyzeFood, and of the action it has executed (results,
\* aggregatedResult); litOk, signOk and fallbackResp record what the
\* network did to this invocation, otherAt where the other invocation was
\* when this one started, afterOther whether the other one had ended when
\* this one ended.
IdleRequest ==
    [pc |-> "idle", otherAt |-> "none", afterOther |-> FALSE, litOk |-> TRUE,
     calls |-> [p \in 1..MaxProviders |-> IdleCall],
     aggregated |-> PayNoItems, signOk |-> FALSE, actionOk |-> FALSE,
     fallbackResp |-> [kind |-> "none", payload |-> PayNoItems],
     outcome |-> NoResult]

OverlapIdle == requests = [r \in Requests |-> IdleRequest]

\* No call has been made on the service.
ServiceIdle == svcLog = << >> /\ svcThrown = ""

\* No wallet is connected, the hook holds its initial state, nothing was
\* saved.
StorageIdle ==
    /\ address = "none"
    /\ tablelandService = "null"
    /\ userTable = "null"
    /\ profileTable = "null"
    /\ userProfile = "null"
    /\ isInitializing = FALSE
    /\ initRuns = << >>
    /\ isSaving = FALSE
    /\ savePc = "idle"
    /\ saveTarget = "none"
    /\ tablelandMeals = { }
    /\ meals = { }
    /\ navigated = FALSE
    /\ saveError = "null"
    /\ saveCount = 0

Init ==
    /\ actionCode \in { "standalone", "inline" }
    /\ EngineIdle
    /\ AggIdle
    /\ OverlapIdle
    /\ ServiceIdle
    /\ StorageIdle

\* setX(value) of a useState: React drops the update of a component that is
\* no longer mounted.
SetState(current, value) == IF mounted THEN value ELSE current

\* The mount effect's initAI: service.initialize() connects to Lit and
\* creates the wallet, or throws.
InitAI(ok) ==
    /\ ~initDone
    /\ initDone' = TRUE
    /\ IF ok
       THEN /\ aiService' = SetState(aiService, "ready")
            /\ wallet' = TRUE
            /\ error' = error
       ELSE /\ error' = SetState(error, ErrInit)
            /\ UNCHANGED << aiService, wallet >>
    /\ UNCHANGED << actionCode, pc, entry, calls, validResults, actionResult, fallbackCall,
                    providerCalls, fallbackCalls, result, isCapturing, isAnalyzing,
                    foodItems, analysisMetadata >>
    /\ UNCHANGED settleOrder
    /\ UNCHANGED mounted
    /\ UNCHANGED aggVars
    /\ UNCHANGED overlapVars
    /\ UNCHANGED serviceVars
    /\ UNCHANGED storageVars

\* The catch and finally of analyzeImage.
AnalyzeFails ==
    /\ error' = SetState(error, ErrAnalyze)
    /\ isAnalyzing' = SetState(isAnalyzing, FALSE)
    /\ pc' = "done"

\* A fallback whose fetch is wrapped in a retry: a second request goes out
\* with the first.
DispatchFallbackRetrying ==
    /\ fallbackCall' = PendingCall
    /\ fallbackCalls' = fallbackCalls + 2
    /\ pc' = "fallback"

\* The catch (litError) of analyzeImage: result = await
\* aiService.analyzeFoodFallback(...), up to its fetch.
DispatchFallback ==
    /\ fallbackCall' = PendingCall
    /\ fallbackCalls' = fallbackCalls + 1
    /\ pc' = "fallback"

\* analyzeImage, from its first line to the first await that leaves the
\* page: captureImage is memoized with [] and so runs the analyzeImage of
\* the first render, whose aiService is null; the upload handler runs the
\* current one.
StartAnalyze(e, hasKey) ==
    /\ pc = "idle"
    /\ mounted
    /\ isCapturing
    /\ entry' = e
    /\ isCapturing' = FALSE
    /\ LET seen == IF e = "capture" THEN "null" ELSE aiService
       IN  IF ~hasKey \/ seen = "null"
           THEN \* 'OpenRouter API key not found' or 'AI service not available'
                /\ AnalyzeFails
                /\ UNCHANGED << fallbackCall, fallbackCalls >>
           ELSE /\ isAnalyzing' = TRUE
                /\ error' = "null"
                /\ IF wallet
                   THEN /\ pc' = "lit"
                        /\ UNCHANGED << fallbackCall, fallbackCalls >>
                   ELSE \* analyzeFood throws 'Service not initialized'
                        DispatchFallback
    /\ UNCHANGED << actionCode, aiService, initDone, wallet, calls, validResults,
                    actionResult, providerCalls, result, foodItems, analysisMetadata >>
    /\ UNCHANGED settleOrder
    /\ UNCHANGED mounted
    /\ UNCHANGED aggVars
    /\ UNCHANGED overlapVars
    /\ UNCHANGED serviceVars
    /\ UNCHANGED storageVars

\* analyzeFood up to the start of the action: createAuthSig and executeJs
\* reach the Lit network or throw.  When the action starts it maps
\* callOpenRouter over aiProviders, which issues every fetch.
LitStart(ok) ==
    /\ pc = "lit"
    /\ IF ok
       THEN /\ calls' = [p \in 1..MaxProviders |->
                            IF p \in Providers(actionCode) THEN PendingCall ELSE IdleCall]
            /\ providerCalls' = providerCalls + Cardinality(Providers(actionCode))
            /\ pc' = "fanout"
            /\ UNCHANGED << fallbackCall, fallbackCalls >>
       ELSE /\ DispatchFallback
            /\ UNCHANGED << calls, providerCalls >>
    /\ UNCHANGED << actionCode, aiService, initDone, wallet, entry, validResults,
                    actionResult, result, isCapturing, isAnalyzing, foodItems,
                    analysisMetadata, error >>
    /\ UNCHANGED settleOrder
    /\ UNCHANGED mounted
    /\ UNCHANGED aggVars
    /\ UNCHANGED overlapVars
    /\ UNCHANGED serviceVars
    /\ UNCHANGED storageVars

\* One provider's fetch comes back and callOpenRouter returns.
ProviderResponds(p, resp) ==
    /\ pc = "fanout"
    /\ calls[p].state = "pending"
    /\ calls' = [calls EXCEPT ![p] = callOpenRouter(resp)]
    /\ settleOrder' = Append(settleOrder, p)
    /\ UNCHANGED << actionCode, aiService, initDone, wallet, pc, entry, validResults,
                    actionResult, fallbackCall, providerCalls, fallbackCalls, result,
                    isCapturing, isAnalyzing, foodItems, analysisMetadata, error >>
    /\ UNCHANGED mounted
    /\ UNCHANGED aggVars
    /\ UNCHANGED overlapVars
    /\ UNCHANGED serviceVars
    /\ UNCHANGED storageVars

\* The action after await Promise.allSettled: filter, throw on no valid
\* result, aggregate; the inline copy returns, the stand-alone file goes on
\* to await Lit.Actions.signEcdsa.
Join ==
    /\ pc = "fanout"
    /\ JoinReady(actionCode, calls)
    /\ LET valid == FilterValid(calls, 1, Cardinality(Providers(actionCode)))
       IN  /\ validResults' = valid
           /\ IF valid = << >>
              THEN /\ actionResult' = [returned |-> TRUE, success |-> FALSE,
                                       data |-> PayNoItems, error |-> ErrAllFailed,
                                       signed |-> FALSE]
                   /\ pc' = "returned"
              ELSE /\ actionResult' = [returned |-> actionCode = "inline", success |-> TRUE,
                                       data |-> aggregateResults(valid), error |-> "",
                                       signed |-> FALSE]
                   /\ pc' = IF actionCode = "inline" THEN "returned" ELSE "signing"
    /\ UNCHANGED << actionCode, aiService, initDone, wallet, entry, calls, fallbackCall,
                    providerCalls, fallbackCalls, result, isCapturing, isAnalyzing,
                    foodItems, analysisMetadata, error >>
    /\ UNCHANGED settleOrder
    /\ UNCHANGED mounted
    /\ UNCHANGED aggVars
    /\ UNCHANGED overlapVars
    /\ UNCHANGED serviceVars
    /\ UNCHANGED storageVars

\* signEcdsa resolves, or throws into the action's outer catch.
SignDone(ok) ==
    /\ pc = "signing"
    /\ actionResult' = IF ok
                       THEN [actionResult EXCEPT !.returned = TRUE, !.signed = TRUE]
                       ELSE [returned |-> TRUE, success |-> FALSE, data |-> PayNoItems,
                             error |-> ErrSign, signed |-> FALSE]
    /\ pc' = "returned"
    /\ UNCHANGED << actionCode, aiService, initDone, wallet, entry, calls, validResults,
                    fallbackCall, providerCalls, fallbackCalls, result, isCapturing,
                    isAnalyzing, foodItems, analysisMetadata, error >>
    /\ UNCHANGED settleOrder
    /\ UNCHANGED mounted
    /\ UNCHANGED aggVars
    /\ UNCHANGED overlapVars
    /\ UNCHANGED serviceVars
    /\ UNCHANGED storageVars

\* A caller that gives up when the Lit path fails, without the fallback.
LitFailedNoFallback ==
    /\ AnalyzeFails
    /\ UNCHANGED << fallbackCall, fallbackCalls >>

\* What analyzeImage does when analyzeFood throws.
LitFailed ==
    /\ DispatchFallback
    /\ UNCHANGED << error, isAnalyzing >>

\* executeJs resolves: the rest of analyzeFood, and of analyzeImage up to
\* its end or to the fallback's fetch.
LitReturns ==
    /\ pc = "returned"
    /\ IF actionResult.success /\ actionResult.data.hasItems
       THEN /\ result' = AnalysisResultOf(actionResult)
            /\ analysisMetadata' = SetState(analysisMetadata,
                                             [providersUsed |-> result'.providersUsed,
                                              confidence |-> result'.confidence,
                                              network |-> result'.network])
            /\ foodItems' = SetState(foodItems, result'.items)
            /\ isAnalyzing' = SetState(isAnalyzing, FALSE)
            /\ pc' = "done"
            /\ UNCHANGED << fallbackCall, fallbackCalls, error >>
       ELSE /\ LitFailed
            /\ UNCHANGED << result, analysisMetadata, foodItems >>
    /\ UNCHANGED << actionCode, aiService, initDone, wallet, entry, calls, validResults,
                    actionResult, providerCalls, isCapturing >>
    /\ UNCHANGED settleOrder
    /\ UNCHANGED mounted
    /\ UNCHANGED aggVars
    /\ UNCHANGED overlapVars
    /\ UNCHANGED serviceVars
    /\ UNCHANGED storageVars

\* A caller that tries the fallback a second time before it gives up.
FallbackFailedRetry ==
    /\ AnalyzeFails
    /\ fallbackCalls' = fallbackCalls + 1

\* What analyzeImage does when analyzeFoodFallback throws.
FallbackFailed ==
    /\ AnalyzeFails
    /\ UNCHANGED fallbackCalls

\* The fallback's fetch comes back: the rest of analyzeFoodFallback and of
\* analyzeImage.
FallbackResponds(resp) ==
    /\ pc = "fallback"
    /\ fallbackCall.state = "pending"
    /\ IF FallbackParses(resp)
       THEN /\ fallbackCall' = [state |-> "fulfilled", kind |-> resp.kind,
                                isNull |-> FALSE, value |-> resp.payload]
            /\ result' = FallbackResultOf(resp.payload)
            /\ analysisMetadata' = SetState(analysisMetadata,
                                             [providersUsed |-> 1, confidence |-> "low",
                                              network |-> "centralized-fallback"])
            /\ foodItems' = SetState(foodItems, result'.items)
            /\ isAnalyzing' = SetState(isAnalyzing, FALSE)
            /\ pc' = "done"
            /\ UNCHANGED << fallbackCalls, error >>
       ELSE /\ fallbackCall' = [state |-> "rejected", kind |-> resp.kind,
                                isNull |-> TRUE, value |-> resp.payload]
            /\ FallbackFailed
            /\ UNCHANGED << result, analysisMetadata, foodItems >>
    /\ UNCHANGED << actionCode, aiService, initDone, wallet, entry, calls, validResults,
                    actionResult, providerCalls, isCapturing >>
    /\ UNCHANGED settleOrder
    /\ UNCHANGED mounted
    /\ UNCHANGED aggVars
    /\ UNCHANGED overlapVars
    /\ UNCHANGED serviceVars
    /\ UNCHANGED storageVars

Next ==
    \/ \E ok \in BOOLEAN : InitAI(ok)
    \/ \E e \in { "capture", "upload" }, hasKey \in BOOLEAN : StartAnalyze(e, hasKey)
    \/ \E ok \in BOOLEAN : LitStart(ok)
    \/ \E p \in 1..MaxProviders, resp \in Responses : ProviderResponds(p, resp)
    \/ Join
    \/ \E ok \in BOOLEAN : SignDone(ok)
    \/ LitReturns
    \/ \E resp \in Responses : FallbackResponds(resp)

Spec == Init /\ [][Next]_vars

\* The event loop runs every continuation that is ready, and the Lit network
\* answers; nothing in the code bounds how long a fetch may stay pending.
FairSpec ==
    /\ Spec
    /\ WF_vars(\E ok \in BOOLEAN : LitStart(ok))
    /\ WF_vars(Join)
    /\ WF_vars(\E ok \in BOOLEAN : SignDone(ok))
    /\ WF_vars(LitReturns)

-----------------------------------------------------------------------------
(* LeaveSpec: the same engine when the user may leave the view             *)

\* The view is left (the back button's navigate('/')): React unmounts
\* AddMeal and runs the cleanup of the mount effect, whose closure holds the
\* aiService of the first render, null, so that disconnect is not called.
\* No fetch is given an AbortSignal, nothing is cancelled.
Unmount ==
    /\ mounted
    /\ mounted' = FALSE
    /\ UNCHANGED << actionCode, aiService, initDone, wallet, pc, entry, calls, settleOrder,
                    validResults, actionResult, fallbackCall, providerCalls, fallbackCalls,
                    result, isCapturing, isAnalyzing, foodItems, analysisMetadata, error >>
    /\ UNCHANGED aggVars
    /\ UNCHANGED overlapVars
    /\ UNCHANGED serviceVars
    /\ UNCHANGED storageVars

LeaveNext ==
    \/ Next
    \/ Unmount

LeaveSpec == Init /\ [][LeaveNext]_vars

-----------------------------------------------------------------------------
(* AggSpec: aggregateResults on every list of up to MaxSources payloads    *)

AggInit ==
    /\ actionCode = "standalone"
    /\ EngineIdle
    /\ aggResults \in SeqsUpTo(AggPayloads, MaxSources) \ { << >> }
    /\ aggPos = << 1, 1 >>
    /\ itemMap = << >>
    /\ aggLast = NoSet
    /\ aggOut = NoOut
    /\ OverlapIdle
    /\ ServiceIdle
    /\ StorageIdle

AggNext ==
    \/ AggPassThrough
    \/ AggNextResult
    \/ AggItem
    \/ AggReturn

AggSpec == AggInit /\ [][AggNext]_vars

-----------------------------------------------------------------------------
(* Vocabulary of the properties                                            *)

\* The action has passed its await Promise.allSettled.
Joined == providerCalls > 0 /\ pc \in { "signing", "returned", "fallback", "done" }

\* The provider answered what the prompt asks for: the fetch was ok and the
\* content parsed to an object with a non-empty items array.
ProviderSucceeded(p) ==
    /\ calls[p].state = "fulfilled"
    /\ calls[p].kind = "ok"
    /\ calls[p].value.hasItems
    /\ calls[p].value.items # << >>

\* The provider's call ended in a transport error or in malformed JSON.
ProviderBroke(p) == Settled(calls[p]) /\ calls[p].kind \in { "transport", "badjson" }

\* No provider call produced a value: each ended in an error or in null.
ZeroSuccesses ==
    \A p \in Providers(actionCode) : Settled(calls[p]) /\ calls[p].kind \in FailKinds

Succeeded == pc = "done" /\ result.present
Failed == pc = "done" /\ ~result.present

-----------------------------------------------------------------------------
(* C1: partial failure tolerance.  When the request is over and at least   *)
(* one provider succeeded while every other one ended in a transport error *)
(* or malformed JSON, the request ended in a multi-provider Success, and   *)
(* with exactly one such provider providersUsed is 1 and confidence is     *)
(* medium.  This is the claim as stated; the engine violates it.           *)
C1_PartialFailureTolerance ==
    ( /\ pc = "done"
      /\ Joined
      /\ \E p \in Providers(actionCode) : ProviderSucceeded(p)
      /\ \A p \in Providers(actionCode) : ProviderSucceeded(p) \/ ProviderBroke(p) )
    => /\ result.present
       /\ result.network = "lit-protocol"
       /\ ( Cardinality({ p \in Providers(actionCode) : ProviderSucceeded(p) }) = 1
            => result.providersUsed = 1 /\ result.confidence = "medium" )

C3_FullExhaustion ==
    ( Joined /\ ZeroSuccesses /\ fallbackCall.state = "rejected" )
    => /\ Failed
       /\ error # "null" /\ error # ""
       /\ ~isAnalyzing
       /\ foodItems = << >>
       /\ providerCalls = Cardinality(Providers(actionCode))
       /\ fallbackCalls = 1

C3_Witness ==
    /\ Joined /\ ZeroSuccesses
    /\ fallbackCall.state = "rejected"
    /\ pc = "done"
    /\ error = ErrAnalyze

C5_SettleAllJoin ==
    /\ ( pc = "fanout"
         => /\ \A p \in Providers(actionCode) : calls[p].state # "idle"
            /\ providerCalls = Cardinality(Providers(actionCode)) )
    /\ ( Joined => \A p \in Providers(actionCode) : Settled(calls[p]) )

C5_Witness ==
    /\ Joined
    /\ \E p, q \in Providers(actionCode) :
          /\ p < q
          /\ calls[p].kind = "transport"
          /\ calls[q].kind = "ok"
    /\ Len(validResults) = 1

C7_FailureBecomesValue ==
    \A p \in Providers(actionCode) :
        /\ calls[p].state # "rejected"
        /\ ( calls[p].kind \in FailKinds => calls[p].state = "fulfilled" /\ calls[p].isNull )

C7_Witness ==
    /\ Joined
    /\ \E p \in Providers(actionCode) : calls[p].kind = "http" /\ calls[p].isNull
    /\ \E p \in Providers(actionCode) : calls[p].kind = "badjson" /\ calls[p].isNull

(* C8 as stated: when zero providers succeeded, the fan-out layer hands on *)
(* an empty success set and raises no error.                               *)
C8_NoErrorOnZeroSuccesses ==
    ( Joined /\ ZeroSuccesses ) => ( validResults = << >> /\ actionResult.error = "" )

(* C8 as amended: when zero providers succeeded, the filtered list is      *)
(* empty and the action raises "All AI providers failed", which its own    *)
(* catch turns into a result with success false; the action makes no       *)
(* fallback call, the caller (analyzeImage) does, after the action         *)
(* returned.                                                               *)
C8_ZeroSuccessesRaiseToCaller ==
    ( Joined /\ ZeroSuccesses )
    => /\ validResults = << >>
       /\ actionResult.returned
       /\ ~actionResult.success
       /\ actionResult.error = ErrAllFailed
       /\ ( pc = "returned" => fallbackCalls = 0 )
       /\ ( pc \in { "fallback", "done" } => fallbackCalls = 1 )

C8_Witness ==
    /\ pc = "returned"
    /\ Joined /\ ZeroSuccesses
    /\ actionResult.error = ErrAllFailed
    /\ fallbackCalls = 0

NearestInteger(m, a, b) == m % 10 = 0 /\ a + b - 10 < 2 * m /\ 2 * m <= a + b + 10

NearestTenth(m, a, b) == 2 * m - (a + b) \in { -1, 0, 1 }

C10_MergeRule ==
    aggLast.kind = "merge"
    => LET e == aggLast.existing
           i == aggLast.incoming
           m == aggLast.merged
       IN  /\ NormalizedKey(e) = NormalizedKey(i)
           /\ NearestInteger(m.quantity, e.quantity, i.quantity)
           /\ NearestInteger(m.calories, e.calories, i.calories)
           /\ NearestTenth(m.carbs, e.carbs, i.carbs)
           /\ NearestTenth(m.fats, e.fats, i.fats)
           /\ NearestTenth(m.proteins, e.proteins, i.proteins)
           /\ ( e.quantity = 1500 /\ i.quantity = 1700 => m.quantity = 1600 )
           /\ ( e.calories = 2000 /\ i.calories = 2200 => m.calories = 2100 )

C10_Witness ==
    /\ aggLast.kind = "merge"
    /\ aggLast.existing = RiceA
    /\ aggLast.incoming = RiceB
    /\ aggLast.merged.quantity = 1600
    /\ aggLast.merged.calories = 2100
    /\ aggLast.merged.carbs = 6

-----------------------------------------------------------------------------
(* Vocabulary of the aggregation properties                                *)

\* Two items have the same lowercase, trimmed name.
SameKey(a, b) == trim(toLowerCase(a.name)) = trim(toLowerCase(b.name))

\* Every item of every source that has an items array.
AllSourceItems(results) ==
    UNION { { results[j].items[k] : k \in 1..Len(results[j].items) } :
            j \in { i \in 1..Len(results) : results[i].hasItems } }

\* aggregateResults has returned from its merging branch.
MultiSourceDone == aggOut.done /\ Len(aggResults) > 1

(* C11: merge by normalized key.  An incoming item is merged into an       *)
(* earlier one only when their lowercase, trimmed names are equal, and the *)
(* list a multi-source aggregation returns has no two items of the same    *)
(* lowercase, trimmed name, and has an item for the normalized name of     *)
(* every item of every source, and for no other.                           *)
C11_MergeByNormalizedKey ==
    /\ ( aggLast.kind = "merge" => SameKey(aggLast.existing, aggLast.incoming) )
    /\ ( MultiSourceDone
         => LET out == aggOut.value.items
                src == AllSourceItems(aggResults)
            IN  /\ \A j, k \in 1..Len(out) : SameKey(out[j], out[k]) => j = k
                /\ \A it \in src : \E k \in 1..Len(out) : SameKey(out[k], it)
                /\ \A k \in 1..Len(out) : \E it \in src : SameKey(out[k], it) )

C11_Witness ==
    /\ MultiSourceDone
    /\ aggResults = << PayA, PayB >>
    /\ Len(aggOut.value.items) = 2
    /\ RiceA.name # RiceB.name
    /\ SameKey(aggOut.value.items[1], RiceA)
    /\ SameKey(aggOut.value.items[2], EggA)

\* The same results with every provider's own totals blanked.
WithoutOwnTotals(results) ==
    [j \in 1..Len(results) |-> [results[j] EXCEPT !.totalNutrition = Nutrition(0, 0, 0, 0)]]

(* C12: in a multi-source aggregation each measure of the totals is the    *)
(* sum of that measure over the merged item list, and the providers' own   *)
(* totals have no part in it: the same results with their totals blanked   *)
(* aggregate to the same value.                                            *)
C12_TotalsRecomputed ==
    MultiSourceDone
    => /\ aggOut.value.totalNutrition = SumNutrition(aggOut.value.items)
       /\ aggOut.value = aggregateResults(WithoutOwnTotals(aggResults))

C12_Witness ==
    /\ MultiSourceDone
    /\ aggResults = << PayA, PayC >>
    /\ Len(aggOut.value.items) = 2
    /\ aggOut.value.totalNutrition.calories = 2030 + 780
    /\ aggOut.value.totalNutrition # PayC.totalNutrition
    /\ aggOut.value.totalNutrition # PayA.totalNutrition

(* C13: in every result handed to the caller, by the pass-through of a     *)
(* single source, by a merge or by the centralized fallback, each measure  *)
(* of the totals is the sum of that measure over the result's items.  This *)
(* is the claim as stated; the engine violates it.                         *)
C13_TotalsAreItemSums ==
    Succeeded => result.totalNutrition = SumNutrition(result.items)

\* Every reordering of a list of results.
PermutationsOf(results) ==
    { [k \in 1..Len(results) |-> results[f[k]]] : f \in Permutations(1..Len(results)) }

\* Every result of the list is what the prompt asks for: an object with a
\* non-empty items array.
AllConforming(results) ==
    \A j \in 1..Len(results) : results[j].hasItems /\ results[j].items # << >>

(* C14: commutativity of totals.  For every reordering of the list of      *)
(* conforming provider results given to aggregateResults, the totals of    *)
(* the value returned are the same.  This is the claim as stated; the      *)
(* aggregation violates it.                                                *)
C14_TotalsCommute ==
    ( aggOut.done /\ AllConforming(aggResults) )
    => \A other \in PermutationsOf(aggResults) :
           aggregateResults(other).totalNutrition = aggOut.value.totalNutrition

\* The non-null answers by position in aiProviders, whatever the order in
\* which they came in.
ByProviderIndex(code, cs) ==
    LET idx == SelectSeq([p \in 1..Cardinality(Providers(code)) |-> p],
                         LAMBDA p : cs[p].state = "fulfilled" /\ ~cs[p].isNull)
    IN  [k \in 1..Len(idx) |-> cs[idx[k]].value]

\* The same answers in the order in which they came in.
BySettleOrder(cs) ==
    LET idx == SelectSeq(settleOrder,
                         LAMBDA p : cs[p].state = "fulfilled" /\ ~cs[p].isNull)
    IN  [k \in 1..Len(idx) |-> cs[idx[k]].value]

(* C15: the totals do not depend on the order in which the provider calls  *)
(* complete.  After the join the list given to aggregateResults is the     *)
(* non-null answers in the order of aiProviders, so that the totals of the *)
(* action's result, and of the result the caller gets from it, are a       *)
(* function of the answers alone: the same for every interleaving.         *)
C15_TotalsIgnoreCompletionOrder ==
    Joined
    => LET fixed == ByProviderIndex(actionCode, calls)
       IN  /\ validResults = fixed
           /\ ( actionResult.success
                => actionResult.data.totalNutrition = aggregateResults(fixed).totalNutrition )
           /\ ( Succeeded /\ result.network = "lit-protocol"
                => result.totalNutrition = aggregateResults(fixed).totalNutrition )

C15_Witness ==
    /\ Succeeded
    /\ result.network = "lit-protocol"
    /\ settleOrder = << 3, 2, 1 >>
    /\ validResults = << PayA, PayB, PayConf >>
    /\ result.totalNutrition.calories = 2860
    /\ aggregateResults(BySettleOrder(calls)).totalNutrition.calories = 2850

\* The items of all the results, in the order the two forEach loops visit
\* them.
RECURSIVE AllItemsInOrder(_)
AllItemsInOrder(results) ==
    IF results = << >> THEN << >>
    ELSE (IF Head(results).hasItems THEN Head(results).items ELSE << >>)
             \o AllItemsInOrder(Tail(results))

\* The items of the results that have the key of item x, in that order.
Occurrences(results, x) == SelectSeq(AllItemsInOrder(results), LAMBDA it : SameKey(it, x))

\* The first item, averaged with the second, the outcome averaged with the
\* third, and so on.
RECURSIVE RunningAverage(_)
RunningAverage(items) ==
    IF Len(items) = 1 THEN items[1]
    ELSE MergeItem(RunningAverage(SubSeq(items, 1, Len(items) - 1)), items[Len(items)])

\* The item of a list that has the key of item x.
ItemOfKey(items, x) == items[CHOOSE k \in 1..Len(items) : SameKey(items[k], x)]

\* Three or more results report the item x, and not all with the same values.
ReportedByThree(results, x) ==
    LET occ == Occurrences(results, x)
    IN  /\ Cardinality({ j \in 1..Len(results) :
                           /\ results[j].hasItems
                           /\ \E k \in 1..Len(results[j].items) :
                                  SameKey(results[j].items[k], x) }) >= 3
        /\ \E j, k \in 1..Len(occ) : occ[j].calories # occ[k].calories

(* C16: the merge is a running pairwise average.  Every item of a          *)
(* multi-source aggregation is the first item of its key averaged with the *)
(* second, the outcome averaged with the third, and so on in list order;   *)
(* it is not a mean of all of them: when three or more results report the  *)
(* item with values that differ, some other order of the same results      *)
(* gives a different merged value.                                         *)
C16_RunningPairwiseAverage ==
    MultiSourceDone
    => LET out == aggOut.value.items
       IN  \A k \in 1..Len(out) :
               /\ out[k] = RunningAverage(Occurrences(aggResults, out[k]))
               /\ ( ReportedByThree(aggResults, out[k])
                    => \E other \in PermutationsOf(aggResults) :
                           ItemOfKey(aggregateResults(other).items, out[k]).calories
                               # out[k].calories )

C16_Witness ==
    /\ MultiSourceDone
    /\ aggResults = << PayA, PayB, PayConf >>
    /\ ReportedByThree(aggResults, RiceA)
    /\ ItemOfKey(aggOut.value.items, RiceA).calories = 2080
    /\ ItemOfKey(aggregateResults(<< PayConf, PayB, PayA >>).items, RiceA).calories = 2070

\* The providers whose answer has items to contribute.
Contributors == { p \in Providers(actionCode) : ProviderSucceeded(p) }

(* C17: in a result of the Lit path providersUsed is the number of         *)
(* providers that contributed, confidence is high exactly when two or more *)
(* contributed, and medium when exactly one did and was passed through.    *)
(* This is the claim as stated; the engine violates it.                    *)
C17_ProvidersUsedAndConfidence ==
    ( Succeeded /\ result.network = "lit-protocol" )
    => /\ result.providersUsed = Cardinality(Contributors)
       /\ ( result.confidence = "high" <=> Cardinality(Contributors) >= 2 )
       /\ ( Cardinality(Contributors) = 1 => result.confidence = "medium" )

(* C18: confidence low is reserved for the centralized fallback.  A result *)
(* whose confidence is low comes from analyzeFoodFallback, and a result of *)
(* the Lit path never has confidence low, whatever the providers answer.   *)
(* This is the claim as stated; the engine violates it.                    *)
C18_LowOnlyFromFallback ==
    /\ ( Succeeded /\ result.confidence = "low"
         => result.network = "centralized-fallback" /\ fallbackCalls = 1 )
    /\ ( analysisMetadata.confidence = "low"
         => analysisMetadata.network = "centralized-fallback" )

(* C19: an empty merged item list is a fatal aggregation failure.  When    *)
(* the valid results of the fan-out have no item between them, the request *)
(* goes on to the fallback, and no request ends in a result whose item     *)
(* list is empty.  This is the claim as stated; the engine violates it.    *)
C19_EmptyMergeIsFatal ==
    /\ ( pc = "done" /\ Joined /\ validResults # << >>
           /\ AllSourceItems(validResults) = { }
         => fallbackCalls = 1 )
    /\ ( Succeeded => result.items # << >> )

(* C20: an answer with a non-2xx status, with JSON that does not parse,    *)
(* without an items array or with an empty item list is that provider's    *)
(* failure.  After the join every result of the valid list has a non-empty *)
(* items array, the list has one result per provider that succeeded, and   *)
(* providersUsed of a result of the Lit path counts no other provider.     *)
(* This is the claim as stated; the engine violates it.                    *)
C20_MalformedAnswerIsFailure ==
    Joined
    => /\ \A k \in 1..Len(validResults) :
              validResults[k].hasItems /\ validResults[k].items # << >>
       /\ Len(validResults) = Cardinality(Contributors)
       /\ ( Succeeded /\ result.network = "lit-protocol"
            => result.providersUsed <= Cardinality(Contributors) )

-----------------------------------------------------------------------------
(* Signing                                                                 *)

\* await service.initialize() of the mount effect passes no private key.
PrivateKeyGiven == FALSE

\* Lit.Actions.signEcdsa threw after aggregateResults had returned.
SigningFailed == actionResult.returned /\ actionResult.error = ErrSign

(* C21: signing is optional.  When initialize was called without a private *)
(* key, a request that ends in a result of the Lit path carries no         *)
(* signature.  This is the claim as stated; the engine violates it.        *)
C21_NoIdentityNoSignature ==
    ( Succeeded /\ result.network = "lit-protocol" /\ ~PrivateKeyGiven )
    => ~result.signed

(* C22: a signing failure is not fatal.  When signEcdsa failed after a     *)
(* successful aggregation, no fallback call is made and the request ends   *)
(* in a result of the Lit path that has the aggregated items and no        *)
(* signature.  This is the claim as stated; the engine violates it.        *)
C22_SigningFailureNonFatal ==
    ( SigningFailed /\ pc \in { "fallback", "done" } )
    => /\ fallbackCalls = 0
       /\ ( pc = "done"
            => /\ Succeeded
               /\ result.network = "lit-protocol"
               /\ ~result.signed
               /\ result.items = aggregateResults(validResults).items )

-----------------------------------------------------------------------------
-----------------------------------------------------------------------------
(* C24: cancellation.  Once the view has been left, the request does       *)
(* nothing more: no provider call of it settles with an answer, no further *)
(* call is issued, and no result or metadata comes out of it.  This is the *)
(* claim as stated; the engine violates it.                                *)
C24_AbandonCancels ==
    [][ ~mounted
        => UNCHANGED << calls, fallbackCall, providerCalls, fallbackCalls, result,
                        analysisMetadata, foodItems >> ]_vars

-----------------------------------------------------------------------------
(* OverlapSpec: two invocations of analyzeFood (each with the fallback of  *)
(* its analyzeImage) overlap on one initialized service.  The service has  *)
(* two fields, litClient and wallet, which analyzeFood only reads; all the *)
(* rest is local to the invocation or to the action execution it started.  *)

\* What the network answers in OverlapSpec.
OverlapResponses ==
    { [kind |-> "http", payload |-> PayNoItems],
      [kind |-> "ok", payload |-> PayA],
      [kind |-> "ok", payload |-> PayB] }

SetRequest(r, q) == requests' = [requests EXCEPT ![r] = q]

\* An aggregatedResult kept in one slot for all executions: an execution
\* that comes back from its await finds the value of the other one, if
\* that one has aggregated as well.
AggregatedShared(r) ==
    IF requests[OtherRequest(r)].pc \in { "signing", "returned" }
    THEN requests[OtherRequest(r)].aggregated
    ELSE requests[r].aggregated

\* const aggregatedResult, read after await Lit.Actions.signEcdsa and by
\* analyzeFood as result.data.
AggregatedOf(r) == requests[r].aggregated

\* analyzeImage is entered from a file that was chosen while the upload
\* button was shown (its FileReader ends whenever it ends), with a key
\* stored: the three setters, then aiService.analyzeFood(base64, apiKey) is
\* called; this.wallet is set.
OvStart(r) ==
    /\ wallet
    /\ requests[r].pc = "idle"
    /\ SetRequest(r, [requests[r] EXCEPT !.pc = "lit",
                                         !.otherAt = requests[OtherRequest(r)].pc])
    /\ isAnalyzing' = SetState(isAnalyzing, TRUE)
    /\ isCapturing' = SetState(isCapturing, FALSE)
    /\ error' = SetState(error, "null")
    /\ UNCHANGED << foodItems, analysisMetadata >>
    /\ UNCHANGED requestVars
    /\ UNCHANGED aggVars
    /\ UNCHANGED serviceVars
    /\ UNCHANGED storageVars

\* createAuthSig and executeJs reach the Lit network or throw.
OvLitStart(r, ok) ==
    /\ requests[r].pc = "lit"
    /\ SetRequest(r, IF ok
                     THEN [requests[r] EXCEPT
                              !.pc = "fanout",
                              !.calls = [p \in 1..MaxProviders |->
                                            IF p \in Providers(actionCode)
                                            THEN PendingCall ELSE IdleCall]]
                     ELSE [requests[r] EXCEPT !.pc = "fallback", !.litOk = FALSE])
    /\ UNCHANGED engineVars
    /\ UNCHANGED aggVars
    /\ UNCHANGED serviceVars
    /\ UNCHANGED storageVars

OvProviderResponds(r, p, resp) ==
    /\ requests[r].pc = "fanout"
    /\ requests[r].calls[p].state = "pending"
    /\ SetRequest(r, [requests[r] EXCEPT !.calls[p] = callOpenRouter(resp)])
    /\ UNCHANGED engineVars
    /\ UNCHANGED aggVars
    /\ UNCHANGED serviceVars
    /\ UNCHANGED storageVars

\* After await Promise.allSettled: filter, throw or aggregate.
OvJoin(r) ==
    /\ requests[r].pc = "fanout"
    /\ JoinReady(actionCode, requests[r].calls)
    /\ LET valid == FilterValid(requests[r].calls, 1, Cardinality(Providers(actionCode)))
       IN  SetRequest(r, IF valid = << >>
                         THEN [requests[r] EXCEPT !.pc = "returned", !.actionOk = FALSE]
                         ELSE [requests[r] EXCEPT
                                  !.aggregated = aggregateResults(valid),
                                  !.actionOk = actionCode = "inline",
                                  !.pc = IF actionCode = "inline" THEN "returned"
                                         ELSE "signing"])
    /\ UNCHANGED engineVars
    /\ UNCHANGED aggVars
    /\ UNCHANGED serviceVars
    /\ UNCHANGED storageVars

OvSignDone(r, ok) ==
    /\ requests[r].pc = "signing"
    /\ SetRequest(r, [requests[r] EXCEPT !.pc = "returned", !.signOk = ok, !.actionOk = ok])
    /\ UNCHANGED engineVars
    /\ UNCHANGED aggVars
    /\ UNCHANGED serviceVars
    /\ UNCHANGED storageVars

\* An analyzeImage that shows the items and leaves the metadata as it is.
ApplyResultItemsOnly(res, meta) ==
    /\ foodItems' = SetState(foodItems, res.items)
    /\ isAnalyzing' = SetState(isAnalyzing, FALSE)
    /\ UNCHANGED << analysisMetadata, isCapturing, error >>

\* analyzeImage after the await that gave it res: setAnalysisMetadata,
\* setFoodItems(result.items) and the finally, with no await in between.
ApplyResult(res, meta) ==
    /\ analysisMetadata' = SetState(analysisMetadata, meta)
    /\ foodItems' = SetState(foodItems, res.items)
    /\ isAnalyzing' = SetState(isAnalyzing, FALSE)
    /\ UNCHANGED << isCapturing, error >>

\* executeJs resolves: the rest of analyzeFood, and of analyzeImage up to
\* its end or, when analyzeFood throws, to the fallback's fetch.
OvLitReturns(r) ==
    /\ requests[r].pc = "returned"
    /\ IF requests[r].actionOk /\ AggregatedOf(r).hasItems
       THEN LET res == AnalysisResultOf([data |-> AggregatedOf(r),
                                         signed |-> requests[r].signOk])
            IN  /\ SetRequest(r, [requests[r] EXCEPT
                                     !.pc = "done",
                                     !.afterOther = requests[OtherRequest(r)].pc = "done",
                                     !.outcome = res])
                /\ ApplyResult(res, [providersUsed |-> res.providersUsed,
                                     confidence |-> res.confidence,
                                     network |-> res.network])
       ELSE /\ SetRequest(r, [requests[r] EXCEPT !.pc = "fallback"])
            /\ UNCHANGED viewVars
    /\ UNCHANGED requestVars
    /\ UNCHANGED aggVars
    /\ UNCHANGED serviceVars
    /\ UNCHANGED storageVars

\* The fetch of analyzeFoodFallback comes back.
OvFallbackResponds(r, resp) ==
    /\ requests[r].pc = "fallback"
    /\ SetRequest(r, [requests[r] EXCEPT
                         !.pc = "done",
                         !.afterOther = requests[OtherRequest(r)].pc = "done",
                         !.fallbackResp = resp,
                         !.outcome = IF FallbackParses(resp)
                                     THEN FallbackResultOf(resp.payload)
                                     ELSE NoResult])
    /\ IF FallbackParses(resp)
       THEN ApplyResult(FallbackResultOf(resp.payload),
                        [providersUsed |-> 1, confidence |-> "low",
                         network |-> "centralized-fallback"])
       ELSE \* the outer catch and the finally
            /\ error' = SetState(error, ErrAnalyze)
            /\ isAnalyzing' = SetState(isAnalyzing, FALSE)
            /\ UNCHANGED << isCapturing, foodItems, analysisMetadata >>
    /\ UNCHANGED requestVars
    /\ UNCHANGED aggVars
    /\ UNCHANGED serviceVars
    /\ UNCHANGED storageVars

\* The service after a successful initialize, no request of the
\* single-request engine under way.
OverlapInit ==
    /\ actionCode \in { "standalone", "inline" }
    /\ aiService = "ready"
    /\ initDone = TRUE
    /\ wallet = TRUE
    /\ mounted = TRUE
    /\ pc = "idle"
    /\ entry = "none"
    /\ calls = [p \in 1..MaxProviders |-> IdleCall]
    /\ settleOrder = << >>
    /\ validResults = << >>
    /\ actionResult = NoActionResult
    /\ fallbackCall = IdleCall
    /\ providerCalls = 0
    /\ fallbackCalls = 0
    /\ result = NoResult
    /\ isCapturing = TRUE
    /\ isAnalyzing = FALSE
    /\ foodItems = << >>
    /\ analysisMetadata = NoMetadata
    /\ error = "null"
    /\ AggIdle
    /\ OverlapIdle
    /\ ServiceIdle
    /\ StorageIdle

OverlapNext ==
    \/ \E r \in Requests : OvStart(r)
    \/ \E r \in Requests, ok \in BOOLEAN : OvLitStart(r, ok)
    \/ \E r \in Requests, p \in 1..MaxProviders, resp \in OverlapResponses :
           OvProviderResponds(r, p, resp)
    \/ \E r \in Requests : OvJoin(r)
    \/ \E r \in Requests, ok \in BOOLEAN : OvSignDone(r, ok)
    \/ \E r \in Requests : OvLitReturns(r)
    \/ \E r \in Requests, resp \in OverlapResponses : OvFallbackResponds(r, resp)

OverlapSpec == OverlapInit /\ [][OverlapNext]_vars

\* What an invocation delivers when it runs alone and the network treats
\* it as it treated q: a function of q's own answers.
OutcomeAlone(q) ==
    LET valid == ByProviderIndex(actionCode, q.calls)
        signed == actionCode = "standalone" /\ q.signOk
        litSuccess == /\ q.litOk
                      /\ valid # << >>
                      /\ ( actionCode = "standalone" => q.signOk )
                      /\ aggregateResults(valid).hasItems
    IN  IF litSuccess
        THEN AnalysisResultOf([data |-> aggregateResults(valid), signed |-> signed])
        ELSE IF FallbackParses(q.fallbackResp)
             THEN FallbackResultOf(q.fallbackResp.payload)
             ELSE NoResult

(* C25: no state is shared by overlapping requests.  Whatever the other    *)
(* invocation does in the meantime, an invocation that has ended delivered *)
(* what it would have delivered alone: the outcome that follows from the   *)
(* answers its own calls got.                                              *)
C25_OverlapIsolation ==
    \A r \in Requests :
        requests[r].pc = "done" => requests[r].outcome = OutcomeAlone(requests[r])

C25_Witness ==
    /\ actionCode = "standalone"
    /\ requests["first"].pc = "done"
    /\ requests["second"].pc = "done"
    /\ requests["second"].otherAt = "fanout"
    /\ requests["first"].outcome.present
    /\ requests["second"].outcome.present
    /\ requests["first"].outcome.network = "lit-protocol"
    /\ requests["second"].outcome.network = "lit-protocol"
    /\ requests["first"].outcome.items # requests["second"].outcome.items

-----------------------------------------------------------------------------
NonNegativeItem(item) ==
    /\ item.quantity >= 0
    /\ item.calories >= 0
    /\ item.carbs >= 0
    /\ item.fats >= 0
    /\ item.proteins >= 0

NonNegativeTotals(t) == t.calories >= 0 /\ t.carbs >= 0 /\ t.fats >= 0 /\ t.proteins >= 0

(* C26: in every result handed to the caller the quantity and the four     *)
(* measures of every item, and the four measures of the totals, are not    *)
(* negative.  This is the claim as stated; the engine violates it.         *)
C26_NonNegative ==
    Succeeded
    => /\ \A k \in 1..Len(result.items) : NonNegativeItem(result.items[k])
       /\ NonNegativeTotals(result.totalNutrition)

-----------------------------------------------------------------------------
\* The provider fetches the request has issued, fallback included.
ProvidersAttempted == providerCalls + fallbackCalls

(* C27: on a terminal failure the caller gets one cause string and the     *)
(* number of providers attempted.  What analyzeImage leaves behind for the *)
(* view is error and analysisMetadata, so the string is in error and the   *)
(* count can only be analysisMetadata.providersUsed.  This is the claim as *)
(* stated; the engine violates it.                                         *)
C27_FailureCarriesCauseAndCount ==
    Failed
    => /\ error # "null" /\ error # ""
       /\ analysisMetadata.providersUsed = ProvidersAttempted

-----------------------------------------------------------------------------
\* What the fan-out of the action leaves for the code after it: const
\* validResults, and nothing else (results is not used again).
FanOutOutput == [successes |-> validResults]

(* C28: the fan-out hands on the successful payloads together with a count *)
(* of failures, and the number of successes plus that count is the number  *)
(* of providers dispatched.  This is the claim as stated; the engine       *)
(* violates it.                                                            *)
C28_SuccessesPlusFailures ==
    Joined
    => /\ "failures" \in DOMAIN FanOutOutput
       /\ Len(FanOutOutput.successes) + FanOutOutput.failures = providerCalls

-----------------------------------------------------------------------------
(* C29: the unit of a merged item.  A merge leaves the unit of the Map     *)
(* entry as it was, so that every item of a multi-source aggregation has   *)
(* the unit of the first item of its key in list order, whatever units the *)
(* later items of the key have.                                            *)
C29_UnitOfFirstSeen ==
    /\ ( aggLast.kind = "merge" => aggLast.merged.unit = aggLast.existing.unit )
    /\ ( MultiSourceDone
         => \A k \in 1..Len(aggOut.value.items) :
                aggOut.value.items[k].unit
                    = Occurrences(aggResults, aggOut.value.items[k])[1].unit )

C29_Witness ==
    /\ MultiSourceDone
    /\ aggResults = << PayB, PayA, PayC >>
    /\ RiceB.unit = "grams" /\ RiceA.unit = "g" /\ RiceC.unit = "g"
    /\ ItemOfKey(aggOut.value.items, RiceA).unit = "grams"

-----------------------------------------------------------------------------
(* ServiceSpec: a caller of DecentralizedAIService that calls initialize,  *)
(* analyzeFood and disconnect in any order, one analyzeFood at a time.     *)

ErrNotInitialized == "Service not initialized. Call initialize() first."
ErrAnalyzeFood == "Failed to analyze food"

\* The number of calls on the service a run of ServiceSpec makes.
MaxServiceCalls == 5

\* What the network answers in ServiceSpec.
ServiceResponses ==
    { [kind |-> "http", payload |-> PayNoItems],
      [kind |-> "ok", payload |-> PayA] }

Logged(event) == svcLog' = Append(svcLog, event)

\* initialize(): litClient.connect() resolves and the wallet is created, or
\* connect() throws and nothing is assigned.
SvcInitialize(ok) ==
    /\ Len(svcLog) < MaxServiceCalls
    /\ IF ok
       THEN wallet' = TRUE /\ Logged("initialize")
       ELSE UNCHANGED << wallet, svcLog >>
    /\ UNCHANGED << actionCode, aiService, initDone, mounted, pc, entry, calls, settleOrder,
                    validResults, actionResult, fallbackCall, providerCalls, fallbackCalls,
                    result, isCapturing, isAnalyzing, foodItems, analysisMetadata, error,
                    svcThrown >>
    /\ UNCHANGED aggVars
    /\ UNCHANGED overlapVars
    /\ UNCHANGED storageVars

\* A disconnect that closes the Lit client and keeps the wallet.
SvcDisconnectKeepsWallet ==
    /\ Len(svcLog) < MaxServiceCalls
    /\ Logged("disconnect")
    /\ UNCHANGED << actionCode, aiService, initDone, wallet, mounted, pc, entry, calls,
                    settleOrder, validResults, actionResult, fallbackCall, providerCalls,
                    fallbackCalls, result, isCapturing, isAnalyzing, foodItems,
                    analysisMetadata, error, svcThrown >>
    /\ UNCHANGED aggVars
    /\ UNCHANGED overlapVars
    /\ UNCHANGED storageVars

\* disconnect(): await this.litClient.disconnect(); this.wallet = null.
SvcDisconnect ==
    /\ Len(svcLog) < MaxServiceCalls
    /\ wallet' = FALSE
    /\ Logged("disconnect")
    /\ UNCHANGED << actionCode, aiService, initDone, mounted, pc, entry, calls, settleOrder,
                    validResults, actionResult, fallbackCall, providerCalls, fallbackCalls,
                    result, isCapturing, isAnalyzing, foodItems, analysisMetadata, error,
                    svcThrown >>
    /\ UNCHANGED aggVars
    /\ UNCHANGED overlapVars
    /\ UNCHANGED storageVars

\* analyzeFood is called: the wallet test in front of its try block.
SvcAnalyzeFood ==
    /\ Len(svcLog) < MaxServiceCalls
    /\ pc = "idle"
    /\ IF ~wallet
       THEN /\ svcThrown' = ErrNotInitialized
            /\ Logged("rejected")
            /\ pc' = pc
       ELSE /\ svcThrown' = ""
            /\ Logged("accepted")
            /\ pc' = "lit"
    /\ UNCHANGED << actionCode, aiService, initDone, wallet, mounted, entry, calls,
                    settleOrder, validResults, actionResult, fallbackCall, providerCalls,
                    fallbackCalls, result, isCapturing, isAnalyzing, foodItems,
                    analysisMetadata, error >>
    /\ UNCHANGED aggVars
    /\ UNCHANGED overlapVars
    /\ UNCHANGED storageVars

\* The locals of an invocation that is over.
SvcForget ==
    /\ calls' = [p \in 1..MaxProviders |-> IdleCall]
    /\ settleOrder' = << >>
    /\ validResults' = << >>
    /\ actionResult' = NoActionResult

\* analyzeFood's catch: throw new Error(`Failed to analyze food: ...`).
SvcThrows ==
    /\ svcThrown' = ErrAnalyzeFood
    /\ pc' = "idle"
    /\ SvcForget
    /\ UNCHANGED result

\* createAuthSig and executeJs: they reach the Lit network and the action
\* starts, or one of them throws; a wallet set to null in the meantime makes
\* this.wallet.publicKey throw.
SvcLitStart(ok) ==
    /\ pc = "lit"
    /\ IF ok /\ wallet
       THEN /\ calls' = [p \in 1..MaxProviders |->
                            IF p \in Providers(actionCode) THEN PendingCall ELSE IdleCall]
            /\ providerCalls' = providerCalls + Cardinality(Providers(actionCode))
            /\ pc' = "fanout"
            /\ UNCHANGED << settleOrder, validResults, actionResult, result, svcThrown >>
       ELSE /\ SvcThrows
            /\ UNCHANGED providerCalls
    /\ UNCHANGED << actionCode, aiService, initDone, wallet, mounted, entry, fallbackCall,
                    fallbackCalls, isCapturing, isAnalyzing, foodItems, analysisMetadata,
                    error, svcLog >>
    /\ UNCHANGED aggVars
    /\ UNCHANGED overlapVars
    /\ UNCHANGED storageVars

\* executeJs resolves: analyzeFood returns the transformed result or throws.
SvcLitReturns ==
    /\ pc = "returned"
    /\ IF actionResult.success /\ actionResult.data.hasItems
       THEN /\ result' = AnalysisResultOf(actionResult)
            /\ svcThrown' = ""
            /\ pc' = "idle"
            /\ SvcForget
       ELSE SvcThrows
    /\ UNCHANGED << actionCode, aiService, initDone, wallet, mounted, entry, fallbackCall,
                    providerCalls, fallbackCalls, isCapturing, isAnalyzing, foodItems,
                    analysisMetadata, error, svcLog >>
    /\ UNCHANGED aggVars
    /\ UNCHANGED overlapVars
    /\ UNCHANGED storageVars

ServiceNext ==
    \/ \E ok \in BOOLEAN : SvcInitialize(ok)
    \/ SvcDisconnect
    \/ SvcAnalyzeFood
    \/ \E ok \in BOOLEAN : SvcLitStart(ok)
    \/ \E p \in 1..MaxProviders, resp \in ServiceResponses : ProviderResponds(p, resp)
    \/ Join
    \/ \E ok \in BOOLEAN : SignDone(ok)
    \/ SvcLitReturns

ServiceSpec == Init /\ [][ServiceNext]_vars

\* The last initialize or disconnect before call k of the log.
LastLifecycle(k) ==
    LET before == { j \in 1..(k - 1) : svcLog[j] \in { "initialize", "disconnect" } }
    IN  IF before = { } THEN "none"
        ELSE svcLog[CHOOSE j \in before : \A i \in before : i <= j]

Accepted == { k \in 1..Len(svcLog) : svcLog[k] = "accepted" }

(* C30: analyzeFood on a service that was never initialized, or that was   *)
(* disconnected since, throws 'Service not initialized. Call initialize()  *)
(* first.' and issues no provider call; after an initialize it is accepted *)
(* again.  An analyzeFood call is rejected exactly when no initialize      *)
(* succeeded before it or a disconnect came after the last one; as long as *)
(* no call was accepted no fetch has been issued; and right after a        *)
(* rejected call the service has thrown that message and is doing nothing. *)
C30_UninitializedIsRejected ==
    /\ \A k \in 1..Len(svcLog) :
           /\ ( svcLog[k] = "rejected" => LastLifecycle(k) \in { "none", "disconnect" } )
           /\ ( svcLog[k] = "accepted" => LastLifecycle(k) = "initialize" )
    /\ providerCalls <= Cardinality(Accepted) * Cardinality(Providers(actionCode))
    /\ fallbackCalls = 0
    /\ ( Accepted = { } => \A p \in 1..MaxProviders : calls[p] = IdleCall )
    /\ ( svcLog # << >> /\ svcLog[Len(svcLog)] = "rejected"
         => svcThrown = ErrNotInitialized /\ pc = "idle" )

C30_Witness ==
    /\ svcLog = << "initialize", "disconnect", "rejected", "initialize", "accepted" >>
    /\ pc = "fanout"
    /\ providerCalls = Cardinality(Providers(actionCode))

-----------------------------------------------------------------------------
(* Initialization failure and the fallback path                            *)

\* initAI ended in its catch: service.initialize() threw, setAiService was
\* not called and no wallet exists.
InitFailed == initDone /\ ~wallet /\ aiService = "null"

(* C31: when the service failed to initialize, an analyzeImage that has    *)
(* ended obtained its result from the centralized fallback call: a         *)
(* fallback fetch was issued for it.                                       *)
C31_InitFailureUsesFallback ==
    ( InitFailed /\ pc = "done" ) => fallbackCalls >= 1

(* C32: a result of the centralized fallback path is the answer of one     *)
(* direct fetch (the only fallback fetch of the request), carries no       *)
(* signature and is tagged 'centralized-fallback'; every result of the     *)
(* multi-provider path is tagged                                           *)
(* 'lit-protocol', comes out of a fan-out with at least one valid result   *)
(* and involved no fallback fetch.                                         *)
C32_FallbackBypassesFanOutAndSigner ==
    Succeeded =>
        /\ result.network \in { "centralized-fallback", "lit-protocol" }
        /\ ( result.network = "centralized-fallback" =>
                /\ ~result.signed
                /\ fallbackCalls = 1
                /\ fallbackCall.state = "fulfilled"
                /\ result.items = fallbackCall.value.items
                /\ result.totalNutrition = fallbackCall.value.totalNutrition
                /\ result.providersUsed = 1 )
        /\ ( result.network = "lit-protocol" =>
                /\ fallbackCalls = 0
                /\ validResults # << >>
                /\ result.items = actionResult.data.items )

\* The fan-out ran and failed, and the fallback answered.
C32_Witness ==
    /\ Succeeded
    /\ result.network = "centralized-fallback"
    /\ providerCalls = Cardinality(Providers(actionCode))
    /\ validResults = << >>
    /\ fallbackCall.value = PayA

-----------------------------------------------------------------------------
(* The two sources of the Lit Action                                       *)

\* What the action of source `code` returns when the provider fetches end as
\* in cs and signEcdsa resolves: the providers it dispatched to, and the
\* returned object.  A provider that cs has no answer for counts as failed.
ActionReturn(code, cs) ==
    LET valid == FilterValid(cs, 1, Cardinality(Providers(code)))
    IN  [dispatched |-> Providers(code),
         success |-> valid # << >>,
         data |-> IF valid = << >> THEN PayNoItems ELSE aggregateResults(valid),
         signed |-> valid # << >> /\ code = "standalone"]

(* C33: the action that LitAIClient executes (getFoodAnalysisCode) and the *)
(* stand-alone food-analysis action are equivalent: whenever the action    *)
(* that ran has returned a success, either source, given the same provider *)
(* answers, dispatches to the same providers and returns the same data and *)
(* the same presence of a signature.                                       *)
C33_InlineEquivalentToStandalone ==
    ( actionResult.returned /\ actionResult.success ) =>
        \A code \in { "standalone", "inline" } :
            /\ ActionReturn(code, calls).dispatched = Providers(actionCode)
            /\ ActionReturn(code, calls).data = actionResult.data
            /\ ActionReturn(code, calls).signed = actionResult.signed

-----------------------------------------------------------------------------
(* Provenance of what the view shows, under OverlapSpec                    *)

\* The run whose result the view received last: it ended with a result, and
\* the other run has not ended, or ended without a result, or ended first.
LastShown(r) ==
    /\ requests[r].pc = "done"
    /\ requests[r].outcome.present
    /\ \/ requests[OtherRequest(r)].pc # "done"
       \/ ~requests[OtherRequest(r)].outcome.present
       \/ requests[r].afterOther

(* C34: provenance consistency.  After any interleaving of two analyzeImage *)
(* runs, the items shown and the metadata shown come from one and the same *)
(* run, the last one that ended with a result: foodItems are its items and *)
(* analysisMetadata holds its providersUsed, confidence and network; while *)
(* no run has ended with a result, both are still empty.                   *)
C34_ProvenanceConsistency ==
    /\ \A r \in Requests :
           LastShown(r) =>
               /\ foodItems = requests[r].outcome.items
               /\ analysisMetadata.providersUsed = requests[r].outcome.providersUsed
               /\ analysisMetadata.confidence = requests[r].outcome.confidence
               /\ analysisMetadata.network = requests[r].outcome.network
    /\ ( \A r \in Requests : ~LastShown(r) )
           => foodItems = << >> /\ analysisMetadata = NoMetadata

\* A run on the Lit path ended first and a run that fell back ended after
\* it with other items: the view shows the second.
C34_Witness ==
    /\ requests["first"].pc = "done"
    /\ requests["second"].pc = "done"
    /\ requests["second"].otherAt \in { "lit", "fanout" }
    /\ requests["first"].outcome.network = "lit-protocol"
    /\ requests["second"].outcome.network = "centralized-fallback"
    /\ requests["second"].afterOther
    /\ requests["first"].outcome.items # requests["second"].outcome.items
    /\ analysisMetadata.network = "centralized-fallback"

-----------------------------------------------------------------------------
(* C35: when AddMeal is unmounted after its service was initialized, the   *)
(* cleanup of the mount effect disconnects the service: once the view has  *)
(* been left with aiService set, the service's wallet has been reset by    *)
(* disconnect.  This is the claim as stated; the engine violates it.       *)
C35_UnmountDisconnects ==
    ( ~mounted /\ aiService = "ready" ) => ~wallet

-----------------------------------------------------------------------------
(* C36: after an analysis has ended in failure the user can try again: the *)
(* view is back in the state where capture and upload are offered          *)
(* (isCapturing), and not in one where nothing is analyzed, nothing is     *)
(* shown and nothing can be started.  This is the claim as stated; the     *)
(* engine violates it.                                                     *)
C36_RetryAfterFailure ==
    ( mounted /\ Failed ) => isCapturing

-----------------------------------------------------------------------------
(* TablelandSpec: the useTableland hook following the wallet, and          *)
(* AddMeal.saveMeal, which reads the hook.  A table, a profile and a       *)
(* service are named by the address they were made for.                    *)

Addresses == { "0xA", "0xB" }

\* The number of initTableland invocations that get as far as their try.
MaxInitRuns == 2

\* The number of times the user presses the save button.
MaxSaves == 2

ErrSave == "Failed to save meal. Please try again."

SetRun(i, pcNew) == initRuns' = [initRuns EXCEPT ![i].pc = pcNew]

\* useAccount / useWalletClient report a change and the effect runs
\* initTableland up to its first await: it resets the four states when
\* nothing is connected, and otherwise starts an initialization for the
\* address of this render.  The effect returns no cleanup.
WalletChanges(a) ==
    /\ a # address
    /\ address' = a
    /\ IF a = "none"
       THEN /\ tablelandService' = "null"
            /\ userTable' = "null"
            /\ profileTable' = "null"
            /\ userProfile' = "null"
            /\ UNCHANGED << isInitializing, initRuns >>
       ELSE /\ Len(initRuns) < MaxInitRuns
            /\ isInitializing' = TRUE
            /\ initRuns' = Append(initRuns, [address |-> a, pc |-> "tables"])
            /\ UNCHANGED << tablelandService, userTable, profileTable, userProfile >>
    /\ UNCHANGED saveVars
    /\ UNCHANGED engineVars
    /\ UNCHANGED aggVars
    /\ UNCHANGED overlapVars
    /\ UNCHANGED serviceVars

\* service.initialize and service.initializeUserTables(address) resolve, or
\* one of them throws into the catch and the finally.
InitTables(i, ok) ==
    /\ i \in 1..Len(initRuns)
    /\ initRuns[i].pc = "tables"
    /\ IF ok
       THEN /\ userTable' = initRuns[i].address
            /\ profileTable' = initRuns[i].address
            /\ SetRun(i, "profile")
            /\ UNCHANGED isInitializing
       ELSE /\ isInitializing' = FALSE
            /\ SetRun(i, "done")
            /\ UNCHANGED << userTable, profileTable >>
    /\ UNCHANGED << address, tablelandService, userProfile >>
    /\ UNCHANGED saveVars
    /\ UNCHANGED engineVars
    /\ UNCHANGED aggVars
    /\ UNCHANGED overlapVars
    /\ UNCHANGED serviceVars

\* setUserProfile, setTablelandService(service) and the finally.
InitCompletes(i) ==
    /\ userProfile' = initRuns[i].address
    /\ tablelandService' = initRuns[i].address
    /\ isInitializing' = FALSE
    /\ SetRun(i, "done")

\* service.getUserProfile(address) resolves with a profile or with null, or
\* throws.
InitProfile(i, outcome) ==
    /\ i \in 1..Len(initRuns)
    /\ initRuns[i].pc = "profile"
    /\ IF outcome = "found"
       THEN InitCompletes(i)
       ELSE IF outcome = "missing"
            THEN /\ SetRun(i, "saveProfile")
                 /\ UNCHANGED << tablelandService, userProfile, isInitializing >>
            ELSE /\ isInitializing' = FALSE
                 /\ SetRun(i, "done")
                 /\ UNCHANGED << tablelandService, userProfile >>
    /\ UNCHANGED << address, userTable, profileTable >>
    /\ UNCHANGED saveVars
    /\ UNCHANGED engineVars
    /\ UNCHANGED aggVars
    /\ UNCHANGED overlapVars
    /\ UNCHANGED serviceVars

\* service.saveUserProfile(defaultProfile) resolves or throws.
InitSaveProfile(i, ok) ==
    /\ i \in 1..Len(initRuns)
    /\ initRuns[i].pc = "saveProfile"
    /\ IF ok
       THEN InitCompletes(i)
       ELSE /\ isInitializing' = FALSE
            /\ SetRun(i, "done")
            /\ UNCHANGED << tablelandService, userProfile >>
    /\ UNCHANGED << address, userTable, profileTable >>
    /\ UNCHANGED saveVars
    /\ UNCHANGED engineVars
    /\ UNCHANGED aggVars
    /\ UNCHANGED overlapVars
    /\ UNCHANGED serviceVars

\* saveMeal's test: isConnected && tablelandService && userTable.
SavesToTableland == address # "none" /\ tablelandService # "null" /\ userTable # "null"

\* The save button is pressed (it is disabled while isSaving): saveMeal up
\* to the await of tablelandService.saveMeal, or to its end when the meal
\* goes to the local store.  Meals are named by the number of the press.
SaveStart ==
    /\ savePc = "idle"
    /\ ~isSaving
    /\ ~navigated
    /\ saveCount < MaxSaves
    /\ saveCount' = saveCount + 1
    /\ saveError' = "null"
    /\ IF SavesToTableland
       THEN /\ saveTarget' = "tableland"
            /\ isSaving' = TRUE
            /\ savePc' = "writing"
            /\ UNCHANGED << tablelandMeals, meals, navigated >>
       ELSE /\ saveTarget' = "local"
            /\ meals' = meals \cup { saveCount' }
            /\ navigated' = TRUE
            /\ isSaving' = FALSE
            /\ savePc' = "idle"
            /\ UNCHANGED tablelandMeals
    /\ UNCHANGED hookVars
    /\ UNCHANGED engineVars
    /\ UNCHANGED aggVars
    /\ UNCHANGED overlapVars
    /\ UNCHANGED serviceVars

\* A saveMeal that leaves the view whether or not the write was accepted.
SaveWriteDoneNavigatesAnyway(ok) ==
    /\ savePc = "writing"
    /\ tablelandMeals' = IF ok THEN tablelandMeals \cup { saveCount } ELSE tablelandMeals
    /\ navigated' = TRUE
    /\ saveError' = IF ok THEN saveError ELSE ErrSave
    /\ isSaving' = FALSE
    /\ savePc' = "idle"
    /\ UNCHANGED << saveTarget, meals, saveCount >>
    /\ UNCHANGED hookVars
    /\ UNCHANGED engineVars
    /\ UNCHANGED aggVars
    /\ UNCHANGED overlapVars
    /\ UNCHANGED serviceVars

\* TablelandService.saveMeal resolves (the INSERT ran and its transaction
\* was waited for) or throws; then navigate('/'), or the catch, and the
\* finally.
SaveWriteDone(ok) ==
    /\ savePc = "writing"
    /\ IF ok
       THEN /\ tablelandMeals' = tablelandMeals \cup { saveCount }
            /\ navigated' = TRUE
            /\ UNCHANGED saveError
       ELSE /\ saveError' = ErrSave
            /\ UNCHANGED << tablelandMeals, navigated >>
    /\ isSaving' = FALSE
    /\ savePc' = "idle"
    /\ UNCHANGED << saveTarget, meals, saveCount >>
    /\ UNCHANGED hookVars
    /\ UNCHANGED engineVars
    /\ UNCHANGED aggVars
    /\ UNCHANGED overlapVars
    /\ UNCHANGED serviceVars

TablelandNext ==
    \/ \E a \in Addresses \cup { "none" } : WalletChanges(a)
    \/ \E i \in 1..MaxInitRuns, ok \in BOOLEAN : InitTables(i, ok)
    \/ \E i \in 1..MaxInitRuns, outcome \in { "found", "missing", "throws" } :
           InitProfile(i, outcome)
    \/ \E i \in 1..MaxInitRuns, ok \in BOOLEAN : InitSaveProfile(i, ok)
    \/ SaveStart
    \/ \E ok \in BOOLEAN : SaveWriteDone(ok)

TablelandSpec == Init /\ [][TablelandNext]_vars

\* No initTableland is under way.
HookQuiet == \A i \in 1..Len(initRuns) : initRuns[i].pc = "done"

(* C37: useTableland ends up reflecting the latest wallet state.  Once no  *)
(* initialization is under way, each of service, userTable, profileTable   *)
(* and userProfile is null or belongs to the address connected now; with   *)
(* no wallet connected all four are null.  This is the claim as stated;    *)
(* the hook violates it.                                                   *)
C37_HookReflectsLatestWallet ==
    HookQuiet =>
        /\ tablelandService \in { "null", address }
        /\ userTable \in { "null", address }
        /\ profileTable \in { "null", address }
        /\ userProfile \in { "null", address }

-----------------------------------------------------------------------------
\* The meals either store holds.
Stored == tablelandMeals \cup meals

(* C38: saveMeal persists a meal to exactly one store and navigates away   *)
(* only after that store accepted it.  The store is Tableland when the     *)
(* hook reports a connection, a service and a user table at the press, and *)
(* the local store otherwise; no meal is in both; the view is left only    *)
(* with the meal of the last press stored; and a press whose Tableland     *)
(* write failed leaves its meal in neither store, sets the error and does  *)
(* not navigate.                                                           *)
C38_SaveToExactlyOneStore ==
    /\ [] ( /\ tablelandMeals \cap meals = { }
            /\ ( navigated => savePc = "idle" /\ saveCount \in Stored )
            /\ ( navigated /\ saveTarget = "tableland" => saveCount \in tablelandMeals )
            /\ ( navigated /\ saveTarget = "local" => saveCount \in meals )
            /\ ( savePc = "writing" =>
                    saveTarget = "tableland" /\ saveCount \notin Stored /\ ~navigated )
            /\ ( savePc = "idle" /\ saveCount > 0 /\ ~navigated =>
                    /\ saveTarget = "tableland"
                    /\ saveError = ErrSave
                    /\ Stored = { } ) )
    /\ [][ saveCount' # saveCount =>
               saveTarget' = IF address # "none" /\ tablelandService # "null"
                                /\ userTable # "null"
                             THEN "tableland" ELSE "local" ]_vars

\* A first press whose Tableland write failed, then a second press that was
\* accepted by Tableland.
C38_Witness ==
    /\ saveCount = 2
    /\ navigated
    /\ tablelandMeals = { 2 }
    /\ meals = { }
    /\ saveTarget = "tableland"

-----------------------------------------------------------------------------
\* The fields of the object literal a merge builds.
MergedFields == { "name", "quantity", "unit", "calories", "carbs", "fats", "proteins" }

(* C39: the name and the fields of a merged item.  A merge takes the name  *)
(* of the incoming item and builds an object of name, quantity, unit and   *)
(* the four measures only, so that an item of a multi-source aggregation   *)
(* that two or more items went into has the name of the last of them in    *)
(* list order, which is provider order, and none of the other fields they  *)
(* carried.                                                                *)
C39_MergedNameAndFields ==
    /\ ( aggLast.kind = "merge" =>
            /\ aggLast.merged.name = aggLast.incoming.name
            /\ DOMAIN aggLast.merged = MergedFields )
    /\ ( MultiSourceDone =>
            \A k \in 1..Len(aggOut.value.items) :
                LET occ == Occurrences(aggResults, aggOut.value.items[k])
                IN  Len(occ) >= 2 =>
                        /\ aggOut.value.items[k].name = occ[Len(occ)].name
                        /\ DOMAIN aggOut.value.items[k] = MergedFields )

\* Rice is reported as "Rice" and then under another spelling, the egg with
\* a notes field and then without.
C39_Witness ==
    /\ MultiSourceDone
    /\ aggResults = << PayNoted, PayA, PayB >>
    /\ RiceA.name # RiceB.name
    /\ ItemOfKey(aggOut.value.items, RiceA).name = RiceB.name
    /\ "notes" \in DOMAIN EggNoted
    /\ "notes" \notin DOMAIN ItemOfKey(aggOut.value.items, EggA)

====
